---- MODULE Spec2Model ----
(***************************************************************************)
(* Model of health_agent.py: the Streamlit page "AI Health & Fitness       *)
(* Planner".  Every user interaction re-runs main() from the top against   *)
(* the st.session_state of the browser session.  A page run is cut into    *)
(* steps at the external generation calls (agent.run), which either return *)
(* a text or raise.                                                        *)
(***************************************************************************)
EXTENDS Integers, Sequences, FiniteSets, TLC

\* Number of page runs (script executions) explored in one browser session.
MaxRuns == 4

\* Texts the external generation capability may return (.content).
Texts == {"t1", "t2"}

\* Values the "Ask your question below:" text input may hold.
Questions == {"", "q1", "q2"}

\* Agent names: the two named agents and the unnamed Q&A agent.
DietaryExpert == "Dietary Expert"
FitnessExpert == "Fitness Expert"
PlainAgent == "Agent"

VARIABLES
    GEMINI_API_KEY,   \* module-level value read from the environment
    session_keys,     \* keys present in st.session_state
    dietary_plan,     \* st.session_state.dietary_plan  (dict as set of <<key, value>>)
    fitness_plan,     \* st.session_state.fitness_plan  (dict as set of <<key, value>>)
    qa_pairs,         \* st.session_state.qa_pairs      (list of <<question, answer>>)
    plans_generated,  \* st.session_state.plans_generated
    pc,               \* position of the current page run inside main()
    interaction,      \* the user interaction that triggered the current page run
    question,         \* value of the question text input in the current page run
    meal_text,        \* local: dietary_agent.run(user_profile).content
    screen,           \* what the current page run has put on the page
    run_calls,        \* history: agents whose run() was called in this page run
    runs,             \* history: number of page runs started
    qa_runs,          \* history: for each entry of qa_pairs, the page run that submitted it
    pre,              \* history: st.session_state as it was when this page run started
    pre_widgets       \* history: the input widgets the previous page run rendered

vars == <<GEMINI_API_KEY, session_keys, dietary_plan, fitness_plan, qa_pairs,
          plans_generated, pc, interaction, question, meal_text, screen,
          run_calls, runs, qa_runs, pre, pre_widgets>>

session == <<session_keys, dietary_plan, fitness_plan, qa_pairs, plans_generated>>

\* The content of st.session_state as one value.
Snapshot ==
    [session_keys |-> session_keys, dietary_plan |-> dietary_plan,
     fitness_plan |-> fitness_plan, qa_pairs |-> qa_pairs,
     plans_generated |-> plans_generated]

\* The widgets a user can act on.
Widgets == {"generate_button", "question_input", "answer_button"}

----------------------------------------------------------------------------
\* dict helpers

\* dict.get(key, default)
Get(d, k, default) ==
    IF \E p \in d : p[1] = k
    THEN (CHOOSE p \in d : p[1] = k)[2]
    ELSE default

HasKey(d, k) == \E p \in d : p[1] = k

IsPrefix(s, t) ==
    /\ Len(s) <= Len(t)
    /\ \A i \in 1..Len(s) : s[i] = t[i]

\* The dietary_plan dict literal of lines 132-141.
NewDietaryPlan(meal) ==
    { <<"why_this_plan_works", "High Protein, Healthy Fats, Moderate Carbohydrates, and Caloric Balance">>,
      <<"meal_plan", meal>>,
      <<"important_considerations", "Hydration; Electrolytes; Fiber; Listen to your body">> }

\* The fitness_plan dict literal of lines 143-152.
NewFitnessPlan(routine) ==
    { <<"goals", "Build strength, improve endurance, and maintain overall fitness">>,
      <<"routine", routine>>,
      <<"tips", "Track progress; Rest; Proper form; Stay consistent">> }

EmptyScreen == [tags |-> {}, meal |-> "", routine |-> "", qa |-> <<>>]

\* display_dietary_plan: the expander with the meal plan text.
display_dietary_plan(s, plan_content) ==
    [s EXCEPT !.tags = @ \cup {"dietary_plan"},
              !.meal = Get(plan_content, "meal_plan", "Plan not available")]

\* display_fitness_plan: the expander with the routine text.
display_fitness_plan(s, plan_content) ==
    [s EXCEPT !.tags = @ \cup {"fitness_plan"},
              !.routine = Get(plan_content, "routine", "Routine not available")]

\* Lines 184-188: the Q&A history, shown when the list is not empty.
RenderHistory(s, qa) ==
    IF qa # <<>>
    THEN [s EXCEPT !.tags = @ \cup {"qa_history"}, !.qa = qa]
    ELSE s

\* Line 165: the gate of the question section.
QAGate_open == TRUE
QAGate == plans_generated

\* Line 57: the API key check.
KeyMissing_never == FALSE
KeyMissing == GEMINI_API_KEY = ""

\* Line 180: list.append(item).
append_front(list, item) == <<item>> \o list
append_replace(list, item) == <<item>>
append(list, item) == Append(list, item)

\* Line 157: st.session_state.qa_pairs = [].
ClearedQA_kept(qa) == qa
ClearedQA(qa) == <<>>

----------------------------------------------------------------------------
Init ==
    /\ GEMINI_API_KEY \in {"", "key"}
    /\ session_keys = {}
    /\ dietary_plan = {}
    /\ fitness_plan = {}
    /\ qa_pairs = <<>>
    /\ plans_generated = FALSE
    /\ pc = "idle"
    /\ interaction = "none"
    /\ question = ""
    /\ meal_text = ""
    /\ screen = EmptyScreen
    /\ run_calls = <<>>
    /\ runs = 0
    /\ qa_runs = <<>>
    /\ pre = Snapshot
    /\ pre_widgets = {}

\* A user interaction starts a page run.  The first run is the page load; a
\* button can be clicked only if the previous run rendered it; the question
\* input holds a value only if the previous run rendered it.
StartRun ==
    /\ pc = "idle"
    /\ runs < MaxRuns
    /\ \E i \in {"load", "generate", "answer", "other"}, q \in Questions :
          /\ i = "load" <=> runs = 0
          /\ i = "generate" => "generate_button" \in screen.tags
          /\ i = "answer" => "answer_button" \in screen.tags
          /\ q # "" => "question_input" \in screen.tags
          /\ interaction' = i
          /\ question' = q
    /\ pc' = "main"
    /\ runs' = runs + 1
    /\ screen' = EmptyScreen
    /\ run_calls' = <<>>
    /\ meal_text' = ""
    /\ pre' = Snapshot
    /\ pre_widgets' = screen.tags \cap Widgets
    /\ UNCHANGED <<GEMINI_API_KEY, session, qa_runs>>

\* Lines 57-59: no API key, report and return.
NoApiKey ==
    /\ pc = "main"
    /\ KeyMissing
    /\ screen' = [screen EXCEPT !.tags = @ \cup {"error_key"}]
    /\ pc' = "idle"
    /\ UNCHANGED <<GEMINI_API_KEY, session, interaction, question, meal_text,
                   run_calls, runs, qa_runs, pre, pre_widgets>>

\* Lines 61-65: Gemini(...) raises, report and return.
ModelInitFails ==
    /\ pc = "main"
    /\ ~KeyMissing
    /\ screen' = [screen EXCEPT !.tags = @ \cup {"error_model"}]
    /\ pc' = "idle"
    /\ UNCHANGED <<GEMINI_API_KEY, session, interaction, question, meal_text,
                   run_calls, runs, qa_runs, pre, pre_widgets>>

\* Lines 67-95: initialise the session state on first use, render the
\* profile form and the Generate button, branch on the click.
RenderProfileForm ==
    /\ pc = "main"
    /\ ~KeyMissing
    /\ IF "dietary_plan" \notin session_keys
       THEN /\ session_keys' = session_keys \cup
                  {"dietary_plan", "fitness_plan", "qa_pairs", "plans_generated"}
            /\ dietary_plan' = {}
            /\ fitness_plan' = {}
            /\ qa_pairs' = <<>>
            /\ qa_runs' = <<>>
            /\ plans_generated' = FALSE
       ELSE UNCHANGED <<session, qa_runs>>
    /\ screen' = [screen EXCEPT !.tags = @ \cup {"profile_form", "generate_button"}]
    /\ pc' = IF interaction = "generate" THEN "diet_call" ELSE "qa_section"
    /\ UNCHANGED <<GEMINI_API_KEY, interaction, question, meal_text,
                   run_calls, runs, pre, pre_widgets>>

\* Line 134: dietary_agent.run(user_profile) returns.
DietCallReturns_store(t) ==
    /\ pc = "diet_call"
    /\ run_calls' = Append(run_calls, DietaryExpert)
    /\ meal_text' = t
    /\ dietary_plan' = NewDietaryPlan(t)
    /\ fitness_plan' = NewFitnessPlan(t)
    /\ plans_generated' = TRUE
    /\ qa_pairs' = ClearedQA(qa_pairs)
    /\ qa_runs' = <<>>
    /\ screen' = display_fitness_plan(
                    display_dietary_plan(screen, NewDietaryPlan(t)),
                    NewFitnessPlan(t))
    /\ pc' = "qa_section"
    /\ UNCHANGED <<GEMINI_API_KEY, session_keys, interaction, question, runs, pre, pre_widgets>>

DietCallReturns(t) ==
    /\ pc = "diet_call"
    /\ run_calls' = Append(run_calls, DietaryExpert)
    /\ meal_text' = t
    /\ pc' = "fitness_call"
    /\ UNCHANGED <<GEMINI_API_KEY, session, interaction, question, screen,
                   runs, qa_runs, pre, pre_widgets>>

\* Line 134 raises; lines 162-163 report it.
DietCallRaises_return ==
    /\ pc = "diet_call"
    /\ run_calls' = Append(run_calls, DietaryExpert)
    /\ screen' = [screen EXCEPT !.tags = @ \cup {"error_generate"}]
    /\ pc' = "idle"
    /\ UNCHANGED <<GEMINI_API_KEY, session, interaction, question, meal_text,
                   runs, qa_runs, pre, pre_widgets>>

DietCallRaises ==
    /\ pc = "diet_call"
    /\ run_calls' = Append(run_calls, DietaryExpert)
    /\ screen' = [screen EXCEPT !.tags = @ \cup {"error_generate"}]
    /\ pc' = "qa_section"
    /\ UNCHANGED <<GEMINI_API_KEY, session, interaction, question, meal_text,
                   runs, qa_runs, pre, pre_widgets>>

\* Line 145: fitness_agent.run(user_profile) returns; lines 154-160 store
\* both plans, set the flag, clear the Q&A list and display the plans.
FitnessCallReturns(t) ==
    /\ pc = "fitness_call"
    /\ run_calls' = Append(run_calls, FitnessExpert)
    /\ dietary_plan' = NewDietaryPlan(meal_text)
    /\ fitness_plan' = NewFitnessPlan(t)
    /\ plans_generated' = TRUE
    /\ qa_pairs' = ClearedQA(qa_pairs)
    /\ qa_runs' = <<>>
    /\ screen' = display_fitness_plan(
                    display_dietary_plan(screen, NewDietaryPlan(meal_text)),
                    NewFitnessPlan(t))
    /\ pc' = "qa_section"
    /\ UNCHANGED <<GEMINI_API_KEY, session_keys, interaction, question,
                   meal_text, runs, pre, pre_widgets>>

\* Line 145 raises; lines 162-163 report it.  The diet text is dropped.
FitnessCallRaises_partial ==
    /\ pc = "fitness_call"
    /\ run_calls' = Append(run_calls, FitnessExpert)
    /\ dietary_plan' = NewDietaryPlan(meal_text)
    /\ screen' = [screen EXCEPT !.tags = @ \cup {"error_generate"}]
    /\ pc' = "qa_section"
    /\ UNCHANGED <<GEMINI_API_KEY, session_keys, fitness_plan, qa_pairs,
                   plans_generated, interaction, question, meal_text, runs,
                   qa_runs, pre, pre_widgets>>

FitnessCallRaises_reset ==
    /\ pc = "fitness_call"
    /\ run_calls' = Append(run_calls, FitnessExpert)
    /\ plans_generated' = FALSE
    /\ screen' = [screen EXCEPT !.tags = @ \cup {"error_generate"}]
    /\ pc' = "qa_section"
    /\ UNCHANGED <<GEMINI_API_KEY, session_keys, dietary_plan, fitness_plan,
                   qa_pairs, interaction, question, meal_text, runs,
                   qa_runs, pre, pre_widgets>>

FitnessCallRaises ==
    /\ pc = "fitness_call"
    /\ run_calls' = Append(run_calls, FitnessExpert)
    /\ screen' = [screen EXCEPT !.tags = @ \cup {"error_generate"}]
    /\ pc' = "qa_section"
    /\ UNCHANGED <<GEMINI_API_KEY, session, interaction, question, meal_text,
                   runs, qa_runs, pre, pre_widgets>>

\* Lines 165-170 and 184-188: the question section.  Behind the gate the
\* question input and the Get Answer button are rendered; a click with a
\* non-empty question goes on to the generation call, anything else renders
\* the history and ends the run.
QuestionSection ==
    /\ pc = "qa_section"
    /\ IF QAGate
       THEN IF interaction = "answer" /\ question # ""
            THEN /\ screen' = [screen EXCEPT !.tags = @ \cup
                                  {"question_input", "answer_button"}]
                 /\ pc' = "qa_call"
            ELSE /\ screen' = RenderHistory(
                                  [screen EXCEPT !.tags = @ \cup
                                      {"question_input", "answer_button"}],
                                  qa_pairs)
                 /\ pc' = "idle"
       ELSE /\ screen' = screen
            /\ pc' = "idle"
    /\ UNCHANGED <<GEMINI_API_KEY, session, interaction, question, meal_text,
                   run_calls, runs, qa_runs, pre, pre_widgets>>

\* Lines 173-180: agent.run(context) returns, the pair is appended; then
\* lines 184-188 render the history.
AnswerCallReturns(a) ==
    /\ pc = "qa_call"
    /\ run_calls' = Append(run_calls, PlainAgent)
    /\ qa_pairs' = append(qa_pairs, <<question, a>>)
    /\ qa_runs' = append(qa_runs, runs)
    /\ screen' = RenderHistory(screen, qa_pairs')
    /\ pc' = "idle"
    /\ UNCHANGED <<GEMINI_API_KEY, session_keys, dietary_plan, fitness_plan,
                   plans_generated, interaction, question, meal_text, runs, pre, pre_widgets>>

\* Line 179 raises; lines 181-182 report it; then lines 184-188.
AnswerCallRaises ==
    /\ pc = "qa_call"
    /\ run_calls' = Append(run_calls, PlainAgent)
    /\ screen' = RenderHistory(
                    [screen EXCEPT !.tags = @ \cup {"error_answer"}], qa_pairs)
    /\ pc' = "idle"
    /\ UNCHANGED <<GEMINI_API_KEY, session, interaction, question, meal_text,
                   runs, qa_runs, pre, pre_widgets>>

Next ==
    \/ StartRun
    \/ NoApiKey
    \/ ModelInitFails
    \/ RenderProfileForm
    \/ \E t \in Texts : DietCallReturns(t)
    \/ DietCallRaises
    \/ \E t \in Texts : FitnessCallReturns(t)
    \/ FitnessCallRaises
    \/ QuestionSection
    \/ \E a \in Texts : AnswerCallReturns(a)
    \/ AnswerCallRaises

Spec == Init /\ [][Next]_vars

----------------------------------------------------------------------------
\* Vocabulary of the properties.

\* This page run clicked Generate and both generation calls returned.
GenerateSucceeded == "dietary_plan" \in screen.tags

\* This page run clicked Generate and a generation call raised.
GenerateFailed == "error_generate" \in screen.tags

\* This page run clicked Get Answer and the generation call raised.
AnswerFailed == "error_answer" \in screen.tags

\* The diet call returned and the fitness call raised.
SecondCallFailed ==
    /\ GenerateFailed
    /\ run_calls = <<DietaryExpert, FitnessExpert>>

StrictlyIncreasing(s) ==
    \A i, j \in 1..Len(s) : i < j => s[i] < s[j]

----------------------------------------------------------------------------
\* C1: when the diet call succeeds and the fitness call fails, neither plan
\* is stored: dietary_plan, fitness_plan and plans_generated hold the values
\* they had before the click, for the rest of the page run.
C1_SecondFailureStoresNothing ==
    SecondCallFailed =>
        /\ dietary_plan = pre.dietary_plan
        /\ fitness_plan = pre.fitness_plan
        /\ plans_generated = pre.plans_generated

\* C1 witness: a finished run whose fitness call failed after the diet call
\* had returned a text, over plans stored earlier.
C1_Witness ==
    /\ SecondCallFailed
    /\ pc = "idle"
    /\ meal_text \in Texts
    /\ plans_generated

\* C2: while plans_generated is false no Q&A call is pending or was issued,
\* the Get Answer button is not on the page and qa_pairs is empty; a Q&A
\* call is only made with both plans stored.
C2_QuestionsGated ==
    /\ ~plans_generated =>
          /\ pc # "qa_call"
          /\ \A i \in 1..Len(run_calls) : run_calls[i] # PlainAgent
          /\ "answer_button" \notin screen.tags
          /\ qa_pairs = <<>>
    /\ (pc = "qa_call" \/ \E i \in 1..Len(run_calls) : run_calls[i] = PlainAgent) =>
          /\ HasKey(dietary_plan, "meal_plan")
          /\ HasKey(fitness_plan, "routine")

\* C2 witness: a Q&A call is about to be issued.
C2_Witness ==
    /\ pc = "qa_call"
    /\ plans_generated

\* C3: a Q&A call that returns appends exactly the pair (question, answer)
\* at the end of qa_pairs, a Q&A call that raises leaves qa_pairs unchanged,
\* no other step makes the list longer, and the pairs are listed in the order
\* of the page runs that submitted them.
C3_AppendInSubmissionOrder ==
    [][ /\ pc = "qa_call" =>
              \/ /\ "error_answer" \in screen'.tags
                 /\ qa_pairs' = qa_pairs
              \/ /\ "error_answer" \notin screen'.tags
                 /\ \E a \in Texts : qa_pairs' = Append(qa_pairs, <<question, a>>)
        /\ pc # "qa_call" => Len(qa_pairs') <= Len(qa_pairs)
        /\ Len(qa_runs') = Len(qa_pairs')
        /\ StrictlyIncreasing(qa_runs') ]_vars

\* C3 witness: two pairs with different questions are in the list.
C3_Witness ==
    /\ Len(qa_pairs) = 2
    /\ qa_pairs[1][1] # qa_pairs[2][1]

\* C4: after a GeneratePlans whose two calls both returned, qa_pairs is
\* empty and the stored plans are the newly generated ones.
C4_SuccessClearsHistory ==
    GenerateSucceeded =>
        /\ qa_pairs = <<>>
        /\ plans_generated
        /\ dietary_plan = NewDietaryPlan(meal_text)
        /\ Get(fitness_plan, "routine", "") = screen.routine
        /\ screen.routine \in Texts

\* C4 witness: a successful generation over a non-empty history and
\* different earlier plans.
C4_Witness ==
    /\ GenerateSucceeded
    /\ pre.qa_pairs # <<>>
    /\ pre.dietary_plan # dietary_plan
    /\ pre.fitness_plan # fitness_plan

\* C5 (as stated): across every step the previous qa_pairs is a prefix of
\* the next one; no operation clears the list.
C5_NeverRemoved ==
    [][IsPrefix(qa_pairs, qa_pairs')]_vars

\* C5 (amended): across every step the previous qa_pairs is a prefix of the
\* next one, except the store of a successful GeneratePlans, which empties it.
C5_RemovedOnlyBySuccessfulGenerate ==
    [][ \/ IsPrefix(qa_pairs, qa_pairs')
        \/ /\ pc = "fitness_call"
           /\ "dietary_plan" \in screen'.tags
           /\ qa_pairs' = <<>> ]_vars

\* C5 witness: a page run has extended a non-empty list by one pair.
C5_Witness ==
    /\ pre.qa_pairs # <<>>
    /\ Len(qa_pairs) = Len(pre.qa_pairs) + 1
    /\ IsPrefix(pre.qa_pairs, qa_pairs)

\* C6: GeneratePlans writes nothing to the session state before both calls
\* have returned, the calls are the diet agent then the fitness agent, and a
\* successful GeneratePlans has issued exactly these two calls.
C6_TwoCallsBeforeStore ==
    /\ pc \in {"diet_call", "fitness_call"} => Snapshot = pre
    /\ pc = "fitness_call" => run_calls = <<DietaryExpert>>
    /\ (interaction = "generate" /\ Snapshot # pre) =>
          run_calls = <<DietaryExpert, FitnessExpert>>
    /\ GenerateSucceeded => run_calls = <<DietaryExpert, FitnessExpert>>

\* C6 witness: a finished successful GeneratePlans that changed the state.
C6_Witness ==
    /\ pc = "idle"
    /\ GenerateSucceeded
    /\ Snapshot # pre

\* C7: a failed GeneratePlans or AnswerQuestion leaves the session state as
\* it was before the click, and when the run is over every widget that was
\* on the page before the click is on the page again.
C7_FailureLeavesState ==
    (GenerateFailed \/ AnswerFailed) =>
        /\ Snapshot = pre
        /\ pc = "idle" => pre_widgets \subseteq screen.tags

\* C7 witness: GeneratePlans has failed in PlansReady with a Q&A history.
C7_Witness ==
    /\ GenerateFailed
    /\ pc = "idle"
    /\ plans_generated
    /\ qa_pairs # <<>>

\* C8: without an API key no generation call is issued, the session state is
\* never initialised, no widget is rendered and a page run never gets past
\* the key check.
C8_NoKeyBlocksAll ==
    GEMINI_API_KEY = "" =>
        /\ session_keys = {}
        /\ dietary_plan = {} /\ fitness_plan = {} /\ qa_pairs = <<>>
        /\ ~plans_generated
        /\ run_calls = <<>>
        /\ pc \in {"idle", "main"}
        /\ screen.tags \subseteq {"error_key"}

\* C8 witness: a second page run has reported the missing key.
C8_Witness ==
    /\ GEMINI_API_KEY = ""
    /\ runs >= 2
    /\ "error_key" \in screen.tags

\* C9: a page run triggered by a Get Answer click while plans are stored
\* displays both stored plans together with the Q&A history.
C9_PlansRedisplayed ==
    (/\ pc = "idle"
     /\ interaction = "answer"
     /\ "error_model" \notin screen.tags
     /\ plans_generated) =>
        /\ "dietary_plan" \in screen.tags
        /\ "fitness_plan" \in screen.tags
        /\ screen.qa = qa_pairs

\* C10: plans_generated is true exactly when both plans hold generated
\* text, qa_pairs is empty while it is false, and it never goes back from
\* true to false.
C10_FlagMatchesPlans ==
    /\ [](/\ plans_generated <=>
                (HasKey(dietary_plan, "meal_plan") /\ HasKey(fitness_plan, "routine"))
          /\ ~plans_generated => qa_pairs = <<>>)
    /\ [][plans_generated => plans_generated']_vars

\* C10 witness: the flag is still set after a GeneratePlans whose first call
\* failed.
C10_Witness ==
    /\ plans_generated
    /\ pc = "idle"
    /\ GenerateFailed
    /\ run_calls = <<DietaryExpert>>

====
